---------------------------- MODULE Spec2Model ----------------------------
(***************************************************************************)
(* AudioEncrypt: audio samples are encrypted (PBKDF2 + AES-GCM), framed    *)
(* behind a 36-byte header and written into the R, G, B channels of a      *)
(* canvas; decryption reads the canvas back.  The module models the        *)
(* in-page script (src/unnamed/part_002): the strength policy, the payload *)
(* codec, the pixel packer/unpacker and the event handlers around them.    *)
(***************************************************************************)
EXTENDS Integers, Sequences, FiniteSets, Bags, TLC

(***************************************************************************)
(* Program constants                                                       *)
(***************************************************************************)
SALT_LENGTH == 16
IV_LENGTH == 12
CIPHERTEXT_LENGTH_BYTES == 4
SAMPLE_RATE_BYTES == 4
HEADER_LENGTH == SALT_LENGTH + IV_LENGTH + CIPHERTEXT_LENGTH_BYTES + SAMPLE_RATE_BYTES
BYTES_PER_PIXEL == 3
MIN_KEY_LENGTH == 6
LONG_KEY_LENGTH == 12
MIN_SCORE == 2
STRONG_SCORE == 5
MAX_SAMPLE_RATE == 192000
TAG_LENGTH == 16

(***************************************************************************)
(* Bounds of the model                                                     *)
(***************************************************************************)
MaxPwLen == 6
MaxSamples == 1
MaxPayloadLen == 128
MaxTasks == 2

(***************************************************************************)
(* Bytes, unsigned 32-bit integers, sequences                              *)
(***************************************************************************)
Byte == 0..255

\* An unsigned 32-bit value, or the exact sum of one and a small offset, is
\* carried as top * 2^31 + low with 0 <= low < 2^31, so that every number
\* the checker computes stays below 2^31.
U32(top, low) == [top |-> top, low |-> low]

\* ToUint32 of a number in 0 .. 2^31 - 1
ToUint32(n) == U32(0, n)

\* u + n for 0 <= n < 2^31, exact (no wrap), as a JavaScript number is
U32Plus(u, n) ==
  IF u.low > 2147483647 - n
  THEN U32(u.top + 1, u.low - (2147483647 - n) - 1)
  ELSE U32(u.top, u.low + n)

\* u > n and u <= n for 0 <= n < 2^31
U32Gt(u, n) == u.top > 0 \/ u.low > n
U32Le(u, n) == ~U32Gt(u, n)

RECURSIVE SumSeq(_)
SumSeq(s) == IF s = <<>> THEN 0 ELSE Head(s) + SumSeq(Tail(s))

RECURSIVE Flatten(_)
Flatten(ss) == IF ss = <<>> THEN <<>> ELSE Head(ss) \o Flatten(Tail(ss))

\* the mutant: a slice that starts where the header ends runs to the end of
\* the buffer
Slice_CipherToEnd(s, from, to) ==
  LET e == IF to > Len(s) \/ from = HEADER_LENGTH THEN Len(s) ELSE to
  IN  IF from >= e THEN <<>> ELSE [i \in 1..(e - from) |-> s[from + i]]

\* Uint8Array.prototype.slice(from, to) on 0-based offsets; to is clamped
Slice(s, from, to) ==
  LET e == IF to > Len(s) THEN Len(s) ELSE to
  IN  IF from >= e THEN <<>> ELSE [i \in 1..(e - from) |-> s[from + i]]

\* DataView.setUint32(off, v, false): ToUint32 then four bytes, high first
SetUint32BE(v) ==
  << (v.top % 2) * 128 + v.low \div 16777216, (v.low \div 65536) % 256,
     (v.low \div 256) % 256, v.low % 256 >>

\* DataView.getUint32(off, false) on a 0-based offset
GetUint32BE(s, off) ==
  U32(s[off + 1] \div 128,
      (s[off + 1] % 128) * 16777216 + s[off + 2] * 65536 + s[off + 3] * 256 + s[off + 4])

\* A 32-bit float sample is carried as its bit pattern: the four bytes it
\* occupies in the ArrayBuffer, in memory order.
\* channelData.buffer: the bytes under a Float32Array
Float32Bytes(samples) == Flatten(samples)

\* the mutant: the samples read back in the opposite byte order
Float32FromBytes_BigEndian(b) ==
  [i \in 1..(Len(b) \div 4) |-> << b[4*i], b[4*i - 1], b[4*i - 2], b[4*i - 3] >>]

\* new Float32Array(arrayBuffer) for a byte length that is a multiple of 4
Float32FromBytes(b) ==
  [i \in 1..(Len(b) \div 4) |-> << b[4*i - 3], b[4*i - 2], b[4*i - 1], b[4*i] >>]

(***************************************************************************)
(* Passphrases: sequences of one-character strings                         *)
(***************************************************************************)
LowerChars == {"a", "b"}
UpperChars == {"Z"}
DigitChars == {"7"}
SpaceChars == {" "}
SymbolChars == {"#"}

RECURSIVE TrimLeft(_)
TrimLeft(s) ==
  IF s # <<>> /\ Head(s) \in SpaceChars THEN TrimLeft(Tail(s)) ELSE s

RECURSIVE TrimRight(_)
TrimRight(s) ==
  IF s # <<>> /\ s[Len(s)] \in SpaceChars
  THEN TrimRight(SubSeq(s, 1, Len(s) - 1)) ELSE s

\* String.prototype.trim
Trim(s) == TrimRight(TrimLeft(s))

HasChar(s, class) == \E i \in 1..Len(s) : s[i] \in class
\* the mutant: white space does not count as a character outside A-Za-z0-9
HasOther_NoSpace(s) ==
  \E i \in 1..Len(s) :
    s[i] \notin (LowerChars \cup UpperChars \cup DigitChars \cup SpaceChars)

HasOther(s) ==
  \E i \in 1..Len(s) : s[i] \notin (LowerChars \cup UpperChars \cup DigitChars)

B2N(b) == IF b THEN 1 ELSE 0

\* the mutant: the length bonus needs more than 12 characters
checkPasswordStrength_LongOff(password) ==
  IF Len(password) < MIN_KEY_LENGTH
  THEN [score |-> 0, text |-> "Too Short", class |-> "weak"]
  ELSE LET score == 1 + B2N(Len(password) > LONG_KEY_LENGTH)
                      + B2N(HasChar(password, LowerChars))
                      + B2N(HasChar(password, UpperChars))
                      + B2N(HasChar(password, DigitChars))
                      + B2N(HasOther(password))
       IN  IF score < MIN_SCORE
           THEN [score |-> score, text |-> "Weak", class |-> "weak"]
           ELSE IF score < STRONG_SCORE
                THEN [score |-> score, text |-> "Medium", class |-> "medium"]
                ELSE [score |-> score, text |-> "Strong", class |-> "strong"]

\* lines 42-53
checkPasswordStrength(password) ==
  IF Len(password) < MIN_KEY_LENGTH
  THEN [score |-> 0, text |-> "Too Short", class |-> "weak"]
  ELSE LET score == 1 + B2N(Len(password) >= LONG_KEY_LENGTH)
                      + B2N(HasChar(password, LowerChars))
                      + B2N(HasChar(password, UpperChars))
                      + B2N(HasChar(password, DigitChars))
                      + B2N(HasOther(password))
       IN  IF score < MIN_SCORE
           THEN [score |-> score, text |-> "Weak", class |-> "weak"]
           ELSE IF score < STRONG_SCORE
                THEN [score |-> score, text |-> "Medium", class |-> "medium"]
                ELSE [score |-> score, text |-> "Strong", class |-> "strong"]

\* getUserSecretKey applied to the text of the key field
getUserSecretKey(field) == Trim(field)


(***************************************************************************)
(* Key derivation and the authenticated cipher.  PBKDF2 and AES-GCM are    *)
(* the browser's; they are modelled by what the script relies on: the key  *)
(* is a deterministic, collision-free function of (passphrase, salt), the  *)
(* ciphertext is the plaintext length plus a 16-byte tag, and the tag      *)
(* verifies only under the key and IV that made it and changes with every  *)
(* single ciphertext byte.                                                 *)
(***************************************************************************)
CharCode(c) ==
  CASE c = "a" -> 1 [] c = "b" -> 2 [] c = "Z" -> 3 [] c = "7" -> 4
    [] c = "#" -> 5 [] OTHER -> 6

\* TextEncoder.encode: an injective numbering of the passphrase
RECURSIVE PassNum(_)
PassNum(p) == IF p = <<>> THEN 0 ELSE CharCode(Head(p)) + 7 * PassNum(Tail(p))

\* the mutant: the key depends on the salt alone
deriveKey_SaltOnly(passphrase, salt) == [pass |-> 0, salt |-> salt]

\* lines 59-70: PBKDF2 over the encoded passphrase and the salt
deriveKey(passphrase, salt) == [pass |-> PassNum(passphrase), salt |-> salt]

KeyStream(key, iv, i) == (key.pass + SumSeq(key.salt) + SumSeq(iv) + i) % 256

GcmTag(key, iv, ct) ==
  LET mix == key.pass + SumSeq(key.salt) + SumSeq(iv) + SumSeq(ct)
  IN  SetUint32BE(ToUint32(key.pass))
        \o << SumSeq(key.salt) % 256, SumSeq(iv) % 256, SumSeq(ct) % 256, Len(ct) % 256 >>
        \o [j \in 1..(TAG_LENGTH - 8) |-> (mix + j) % 256]

\* the mutant: a cipher mode that appends no tag
AesGcmEncrypt_NoTag(key, iv, pt) ==
  [i \in 1..Len(pt) |-> (pt[i] + KeyStream(key, iv, i)) % 256]

\* crypto.subtle.encrypt({name:'AES-GCM', iv}, key, plaintext)
AesGcmEncrypt(key, iv, pt) ==
  LET ct == [i \in 1..Len(pt) |-> (pt[i] + KeyStream(key, iv, i)) % 256]
  IN  ct \o GcmTag(key, iv, ct)

AuthFail == [ok |-> FALSE, pt |-> <<>>]

\* the mutant: a cipher mode without authentication (the tag is not verified)
AesGcmDecrypt_NoAuth(key, iv, data) ==
  LET n == IF Len(data) < TAG_LENGTH THEN 0 ELSE Len(data) - TAG_LENGTH
  IN  [ok |-> TRUE,
       pt |-> [i \in 1..n |-> (data[i] + 256 - KeyStream(key, iv, i)) % 256]]

\* crypto.subtle.decrypt({name:'AES-GCM', iv}, key, data): rejects (throws)
\* unless the trailing tag verifies
AesGcmDecrypt(key, iv, data) ==
  IF Len(data) < TAG_LENGTH THEN AuthFail
  ELSE LET n   == Len(data) - TAG_LENGTH
           ct  == SubSeq(data, 1, n)
           tag == SubSeq(data, n + 1, Len(data))
       IN  IF tag # GcmTag(key, iv, ct) THEN AuthFail
           ELSE [ok |-> TRUE,
                 pt |-> [i \in 1..n |-> (ct[i] + 256 - KeyStream(key, iv, i)) % 256]]

(***************************************************************************)
(* encryptAudioToImage                                                     *)
(***************************************************************************)
\* the mutant: the gate compares against 0, so a score of 0 falls through
EncryptGate_Lax(pass) ==
  IF pass = <<>> THEN "key_required"
  ELSE IF checkPasswordStrength(pass).score < 0 THEN "too_weak" ELSE "ok"

\* lines 74-78: the two throws that precede every other step
EncryptGate(pass) ==
  IF pass = <<>> THEN "key_required"
  ELSE IF checkPasswordStrength(pass).score < MIN_SCORE THEN "too_weak" ELSE "ok"

\* the mutant: the two 32-bit fields are written in the opposite order
BuildHeader_Swapped(salt, iv, cipherLen, sampleRate) ==
  salt \o iv \o SetUint32BE(ToUint32(sampleRate)) \o SetUint32BE(ToUint32(cipherLen))

\* lines 89-94: salt at 0, iv at 16, length at 28, sample rate at 32
BuildHeader(salt, iv, cipherLen, sampleRate) ==
  salt \o iv \o SetUint32BE(ToUint32(cipherLen)) \o SetUint32BE(ToUint32(sampleRate))

\* lines 96-99
FullPayload(header, cipherBytes) == header \o cipherBytes

\* Math.ceil(a / b) for positive integers
CeilDiv(a, b) == (a + b - 1) \div b

\* the mutant: the square root rounded down
CeilSqrt_Floor(n) ==
  IF n = 0 THEN 0
  ELSE CHOOSE w \in 1..n : w * w <= n /\ (w + 1) * (w + 1) > n

\* Math.ceil(Math.sqrt(n))
CeilSqrt(n) ==
  IF n = 0 THEN 0
  ELSE CHOOSE w \in 1..n : w * w >= n /\ (w - 1) * (w - 1) < n

NumPixelsRequired(totalDataLength) == CeilDiv(totalDataLength, BYTES_PER_PIXEL)
GridWidth(totalDataLength) == CeilSqrt(NumPixelsRequired(totalDataLength))
GridHeight(totalDataLength) ==
  CeilDiv(NumPixelsRequired(totalDataLength), GridWidth(totalDataLength))

\* the mutant: the image data starts opaque white
CreateImageData_White(w, h) == [i \in 1..(w * h * 4) |-> 255]

\* ctx.createImageData(w, h): transparent black
CreateImageData(w, h) == [i \in 1..(w * h * 4) |-> 0]

\* the mutant: the three bytes of a pixel go to B, G, R
RECURSIVE PackLoop_BGR(_, _, _, _)
PackLoop_BGR(data, payload, i, payloadIdx) ==
  IF i >= Len(data) THEN data
  ELSE
    LET total == Len(payload)
        r   == IF payloadIdx < total THEN payload[payloadIdx + 1] ELSE 0
        i1  == IF payloadIdx < total THEN payloadIdx + 1 ELSE payloadIdx
        g   == IF i1 < total THEN payload[i1 + 1] ELSE 0
        i2  == IF i1 < total THEN i1 + 1 ELSE i1
        b   == IF i2 < total THEN payload[i2 + 1] ELSE 0
        i3  == IF i2 < total THEN i2 + 1 ELSE i2
        d   == [data EXCEPT ![i + 1] = b, ![i + 2] = g, ![i + 3] = r, ![i + 4] = 255]
    IN  IF i3 >= total /\ (i \div 4) >= CeilDiv(total, BYTES_PER_PIXEL) - 1
        THEN d
        ELSE PackLoop_BGR(d, payload, i + 4, i3)

\* lines 110-117: the loop over imgData.data, i the 0-based slot of a pixel's
\* R channel; it leaves by the break or when i runs past the data
RECURSIVE PackLoop(_, _, _, _)
PackLoop(data, payload, i, payloadIdx) ==
  IF i >= Len(data) THEN data
  ELSE
    LET total == Len(payload)
        r   == IF payloadIdx < total THEN payload[payloadIdx + 1] ELSE 0
        i1  == IF payloadIdx < total THEN payloadIdx + 1 ELSE payloadIdx
        g   == IF i1 < total THEN payload[i1 + 1] ELSE 0
        i2  == IF i1 < total THEN i1 + 1 ELSE i1
        b   == IF i2 < total THEN payload[i2 + 1] ELSE 0
        i3  == IF i2 < total THEN i2 + 1 ELSE i2
        d   == [data EXCEPT ![i + 1] = r, ![i + 2] = g, ![i + 3] = b, ![i + 4] = 255]
    IN  IF i3 >= total /\ (i \div 4) >= NumPixelsRequired(total) - 1
        THEN d
        ELSE PackLoop(d, payload, i + 4, i3)

\* the mutant: the grid is one row too low whenever the last row is partial
PackPixels_ShortGrid(payload) ==
  LET w == GridWidth(Len(payload))
      h == NumPixelsRequired(Len(payload)) \div w
  IN  [width |-> w, height |-> h,
       data |-> PackLoop(CreateImageData(w, h), payload, 0, 0)]

\* lines 101-121: the canvas holding the payload
PackPixels(payload) ==
  LET w == GridWidth(Len(payload))
      h == GridHeight(Len(payload))
  IN  [width |-> w, height |-> h,
       data |-> PackLoop(CreateImageData(w, h), payload, 0, 0)]

NoCanvas == [width |-> 0, height |-> 0, data |-> <<>>]

EncFail(why) ==
  [status |-> why, salt |-> <<>>, iv |-> <<>>, cipherBytes |-> <<>>,
   header |-> <<>>, fullPayload |-> <<>>, canvas |-> NoCanvas]

\* lines 79-96: totalDataLength for a channel of numSamples floats: four
\* bytes a sample, the tag the cipher appends, the header
TotalDataLength(numSamples) == HEADER_LENGTH + (4 * numSamples + TAG_LENGTH)

\* lines 79-99: from the audio buffer to the framed payload
BuildPayload(pass, audio, salt, iv) ==
  LET payloadRaw  == Float32Bytes(audio.samples)
      key         == deriveKey(pass, salt)
      cipherBytes == AesGcmEncrypt(key, iv, payloadRaw)
      header      == BuildHeader(salt, iv, Len(cipherBytes), audio.sampleRate)
  IN  [cipherBytes |-> cipherBytes, header |-> header,
       fullPayload |-> FullPayload(header, cipherBytes)]

\* the whole call, for the key-field text, the audio buffer and the two
\* random draws it makes
encryptAudioToImage(field, audio, salt, iv) ==
  LET pass == getUserSecretKey(field)
      gate == EncryptGate(pass)
  IN  IF gate # "ok" THEN EncFail(gate)
      ELSE LET p == BuildPayload(pass, audio, salt, iv)
           IN  [status |-> "ok", salt |-> salt, iv |-> iv,
                cipherBytes |-> p.cipherBytes, header |-> p.header,
                fullPayload |-> p.fullPayload, canvas |-> PackPixels(p.fullPayload)]

(***************************************************************************)
(* decryptImageToAudio                                                     *)
(***************************************************************************)
\* the mutant: the alpha channel is read as a fourth data byte
RECURSIVE UnpackLoop_Alpha(_, _, _, _)
UnpackLoop_Alpha(pixelData, out, i, maxBytes) ==
  IF ~(i < Len(pixelData) /\ Len(out) < maxBytes) THEN out
  ELSE
    LET o1 == Append(out, pixelData[i + 1])
        o2 == IF Len(o1) < maxBytes THEN Append(o1, pixelData[i + 2]) ELSE o1
        o3 == IF Len(o2) < maxBytes THEN Append(o2, pixelData[i + 3]) ELSE o2
        o4 == IF Len(o3) < maxBytes THEN Append(o3, pixelData[i + 4]) ELSE o3
    IN  UnpackLoop_Alpha(pixelData, o4, i + 4, maxBytes)

\* lines 135-139: the loop over pixelData, i the 0-based slot of a pixel's
\* R channel, out the bytes extracted so far
RECURSIVE UnpackLoop(_, _, _, _)
UnpackLoop(pixelData, out, i, maxBytes) ==
  IF ~(i < Len(pixelData) /\ Len(out) < maxBytes) THEN out
  ELSE
    LET o1 == Append(out, pixelData[i + 1])
        o2 == IF Len(o1) < maxBytes THEN Append(o1, pixelData[i + 2]) ELSE o1
        o3 == IF Len(o2) < maxBytes THEN Append(o2, pixelData[i + 3]) ELSE o2
    IN  UnpackLoop(pixelData, o3, i + 4, maxBytes)

\* lines 128-139: allExtractedBytes
UnpackPixels(canvas) ==
  LET pixelData == canvas.data
      maxPossibleDataBytes == (Len(pixelData) \div 4) * BYTES_PER_PIXEL
  IN  UnpackLoop(pixelData, <<>>, 0, maxPossibleDataBytes)

\* the mutant: the comparison rejects a buffer of exactly 36 bytes
HeaderTooShort_Inclusive(bytes) == Len(bytes) <= HEADER_LENGTH

\* line 141
HeaderTooShort(bytes) == Len(bytes) < HEADER_LENGTH

\* the mutant: the end offset computed in 32-bit unsigned arithmetic
CiphertextEndOffset_Wrap(ciphertextLength) ==
  LET e == U32Plus(ciphertextLength, HEADER_LENGTH) IN U32(e.top % 2, e.low)

\* lines 151-152: an IEEE double, exact for every 32-bit length
CiphertextEndOffset(ciphertextLength) == U32Plus(ciphertextLength, HEADER_LENGTH)

\* the mutant: the upper bound is exclusive
InvalidSampleRate_Exclusive(sampleRate) ==
  U32Le(sampleRate, 0) \/ U32Gt(sampleRate, MAX_SAMPLE_RATE - 1)

\* line 170
InvalidSampleRate(sampleRate) == U32Le(sampleRate, 0) \/ U32Gt(sampleRate, MAX_SAMPLE_RATE)

NoKey == [pass |-> -1, salt |-> <<>>]
NoU32 == U32(-1, -1)
NoBuffer == [samples |-> <<>>, sampleRate |-> 0]

\* the record of one call: how it ended and what it did on the way
DecResult(outcome, pass, extractedLen, headerRead, ciphertextLength, sampleRate, sliceLen, key, cipherCalled, rateChecked, ctxUsed, buf) ==
  [outcome |-> outcome, pass |-> pass, extractedLen |-> extractedLen,
   headerRead |-> headerRead, ciphertextLength |-> ciphertextLength,
   sampleRate |-> sampleRate, sliceLen |-> sliceLen, key |-> key,
   cipherCalled |-> cipherCalled, rateChecked |-> rateChecked,
   ctxUsed |-> ctxUsed, buf |-> buf]

\* lines 125-157: everything before the first await.  outcome "parsed"
\* means the call goes on to key derivation.
DecryptParse(field, canvas) ==
  LET pass == getUserSecretKey(field)
  IN
  IF pass = <<>>
  THEN [outcome |-> "key_required", pass |-> pass, extractedLen |-> -1,
        headerRead |-> FALSE, salt |-> <<>>, iv |-> <<>>,
        ciphertextLength |-> NoU32, sampleRate |-> NoU32, cipher |-> <<>>, sliced |-> FALSE]
  ELSE
    LET allExtractedBytes == UnpackPixels(canvas)
    IN
    IF HeaderTooShort(allExtractedBytes)
    THEN [outcome |-> "header_short", pass |-> pass,
          extractedLen |-> Len(allExtractedBytes),
          headerRead |-> FALSE, salt |-> <<>>, iv |-> <<>>,
          ciphertextLength |-> NoU32, sampleRate |-> NoU32, cipher |-> <<>>, sliced |-> FALSE]
    ELSE
      LET salt == Slice(allExtractedBytes, 0, SALT_LENGTH)
          iv   == Slice(allExtractedBytes, SALT_LENGTH, SALT_LENGTH + IV_LENGTH)
          ciphertextLength == GetUint32BE(allExtractedBytes, SALT_LENGTH + IV_LENGTH)
          sampleRate ==
            GetUint32BE(allExtractedBytes, SALT_LENGTH + IV_LENGTH + CIPHERTEXT_LENGTH_BYTES)
          ciphertextOffset == HEADER_LENGTH
          ciphertextEndOffset == CiphertextEndOffset(ciphertextLength)
      IN
      IF U32Gt(ciphertextEndOffset, Len(allExtractedBytes))
      THEN [outcome |-> "length_exceeds", pass |-> pass,
            extractedLen |-> Len(allExtractedBytes),
            headerRead |-> TRUE, salt |-> salt, iv |-> iv,
            ciphertextLength |-> ciphertextLength, sampleRate |-> sampleRate,
            cipher |-> <<>>, sliced |-> FALSE]
      ELSE [outcome |-> "parsed", pass |-> pass,
            extractedLen |-> Len(allExtractedBytes),
            headerRead |-> TRUE, salt |-> salt, iv |-> iv,
            ciphertextLength |-> ciphertextLength, sampleRate |-> sampleRate,
            cipher |-> Slice(allExtractedBytes, ciphertextOffset, ciphertextEndOffset.low),
            sliced |-> TRUE]

\* AudioContext.createBuffer(1, length, sampleRate) throws NotSupportedError
\* for a zero length or a rate outside the range the browser supports
CreateBufferThrows(length, sampleRate, plat) ==
  length = 0 \/ U32Le(sampleRate, plat.lo - 1) \/ U32Gt(sampleRate, plat.hi)

\* lines 159-177: key derivation, the cipher call and what follows it, for
\* a call that parsed
DecryptFinish(p, plat) ==
  LET key == deriveKey(p.pass, p.salt)
      dec == AesGcmDecrypt(key, p.iv, p.cipher)
      R(outcome, rateChecked, ctxUsed, buf) ==
        DecResult(outcome, p.pass, p.extractedLen, TRUE, p.ciphertextLength,
                  p.sampleRate, Len(p.cipher), key, TRUE, rateChecked, ctxUsed, buf)
  IN
  IF ~dec.ok THEN R("auth_failed", FALSE, FALSE, NoBuffer)
  ELSE IF Len(dec.pt) % 4 # 0 THEN R("range_error", FALSE, FALSE, NoBuffer)
  ELSE
    LET floatArr == Float32FromBytes(dec.pt)
    IN  IF InvalidSampleRate(p.sampleRate) THEN R("bad_rate", TRUE, TRUE, NoBuffer)
        ELSE IF CreateBufferThrows(Len(floatArr), p.sampleRate, plat)
             THEN R("not_supported", TRUE, TRUE, NoBuffer)
             ELSE R("ok", TRUE, TRUE,
                    [samples |-> floatArr, sampleRate |-> p.sampleRate.low])

\* the whole call, for the key-field text and the canvas
decryptImageToAudio(field, canvas, plat) ==
  LET p == DecryptParse(field, canvas)
  IN  IF p.outcome = "parsed" THEN DecryptFinish(p, plat)
      ELSE DecResult(p.outcome, p.pass, p.extractedLen, p.headerRead,
                     p.ciphertextLength, p.sampleRate, -1, NoKey, FALSE, FALSE,
                     FALSE, NoBuffer)

(***************************************************************************)
(* State                                                                   *)
(***************************************************************************)
VARIABLES
  st,   \* the strength policy applied to one passphrase
  pk,   \* the pixel packer and unpacker applied to one payload
  cx,   \* one encrypt call, the image handed on, one decrypt call
  ui,       \* the page: key field, display area, buttons, script variables
  tasks,    \* the asynchronous operations in flight, a bag
  encLog    \* history: what the encryptAudioToImage calls that read an empty
            \* or low-scoring passphrase did

vars == << st, pk, cx, ui, tasks, encLog >>
harness == << st, pk, cx >>
page == << ui, tasks, encLog >>

(***************************************************************************)
(* Input sets                                                              *)
(***************************************************************************)
SeqsUpTo(S, n) == UNION { [1..k -> S] : k \in 0..n }

\* s continued with its last character up to n characters
PadTo(s, n) == [i \in 1..n |-> IF i <= Len(s) THEN s[i] ELSE s[Len(s)]]

StrengthAlphabet == {"a", "Z", "7", "#", " "}

StrengthInputs ==
  SeqsUpTo(StrengthAlphabet, MaxPwLen)
    \cup { PadTo(s, n) : s \in (SeqsUpTo(StrengthAlphabet, 4) \ {<<>>}),
                         n \in {MIN_KEY_LENGTH, LONG_KEY_LENGTH - 1,
                                LONG_KEY_LENGTH, LONG_KEY_LENGTH + 1} }

PassA == <<"a", "b", "Z", "7", "#", "a">>
PassB == <<"b", "a", "Z", "7", "#", "b">>
PassLower == <<"a", "a", "a", "a", "a", "a">>
PassShort == <<"a", "b", "Z">>
Spaced(p) == <<" ">> \o p \o <<" ">>

\* what the key field can hold when a call starts
KeyFields == {<<>>, <<" ", " ">>, PassShort, PassA, Spaced(PassA), PassB}

\* the bytes of 0.0 and 1.0 (little-endian IEEE 754 single)
SampleValues == { <<0, 0, 0, 0>>, <<0, 0, 128, 63>> }

\* the sample-rate range of the browser's AudioContext: the range every
\* implementation supports, and a wide one
Platforms == { [lo |-> 8000, hi |-> 96000], [lo |-> 3000, hi |-> 768000] }

\* rates an AudioBuffer handed to encrypt can have on a platform
InputRates(plat) ==
  IF plat.hi < MAX_SAMPLE_RATE THEN {44100} ELSE {MAX_SAMPLE_RATE, 2 * MAX_SAMPLE_RATE}

AudioBuffers(plat) ==
  { [samples |-> s, sampleRate |-> r] :
      s \in (SeqsUpTo(SampleValues, MaxSamples) \ {<<>>}), r \in InputRates(plat) }

\* crypto.getRandomValues: two of the possible draws for each
Salts == { [i \in 1..SALT_LENGTH |-> (i * 7) % 256], [i \in 1..SALT_LENGTH |-> (255 - i) % 256] }
Ivs == { [i \in 1..IV_LENGTH |-> (i * 11) % 256], [i \in 1..IV_LENGTH |-> (200 + i) % 256] }

(***************************************************************************)
(* The strength policy on its own                                          *)
(***************************************************************************)
NoStrength == [score |-> -1, text |-> "", class |-> ""]
StIdle == [phase |-> "idle", password |-> <<>>, result |-> NoStrength]

StrengthApply ==
  /\ st.phase = "input"
  /\ st' = [st EXCEPT !.phase = "scored", !.result = checkPasswordStrength(st.password)]
  /\ UNCHANGED << pk, cx, page >>

(***************************************************************************)
(* The pixel packer and unpacker on their own                              *)
(***************************************************************************)
PkIdle == [phase |-> "idle", payload |-> <<>>, canvas |-> NoCanvas, extracted |-> <<>>]

PackInputs ==
  { [i \in 1..n |-> (i * seed) % 256] : n \in 1..MaxPayloadLen, seed \in {1, 37, 255} }

PkPack ==
  /\ pk.phase = "input"
  /\ pk' = [pk EXCEPT !.phase = "packed", !.canvas = PackPixels(pk.payload)]
  /\ UNCHANGED << st, cx, page >>

PkUnpack ==
  /\ pk.phase = "packed"
  /\ pk' = [pk EXCEPT !.phase = "unpacked", !.extracted = UnpackPixels(pk.canvas)]
  /\ UNCHANGED << st, cx, page >>

(***************************************************************************)
(* One encrypt call, the image carried to the decrypting side, one decrypt *)
(* call                                                                    *)
(***************************************************************************)
NoAudio == [samples |-> <<>>, sampleRate |-> 0]
NoTamper == [kind |-> "none", px |-> 0, ch |-> 0, v |-> 0]
NoDec ==
  DecResult("none", <<>>, -1, FALSE, NoU32, NoU32, -1, NoKey, FALSE, FALSE, FALSE, NoBuffer)

CxIdle ==
  [phase |-> "idle", platform |-> [lo |-> 0, hi |-> 0], encField |-> <<>>,
   audio |-> NoAudio, enc |-> EncFail("none"), tamper |-> NoTamper,
   canvas |-> NoCanvas, decField |-> <<>>, dec |-> NoDec]

\* the 1-based slot of imgData.data that holds payload offset k
SlotOf(k) == 4 * (k \div BYTES_PER_PIXEL) + (k % BYTES_PER_PIXEL) + 1

\* an image whose pixel px has channel ch (0 = R, 1 = G, 2 = B) set to v; the
\* pixel is opaque, as a canvas gives back exact colours only for such
SetChannel(canvas, px, ch, v) ==
  [canvas EXCEPT !.data = [@ EXCEPT ![4 * px + ch + 1] = v, ![4 * px + 4] = 255]]

\* an image whose payload offsets off .. off + Len(bytes) - 1 hold bytes
SetPayloadBytes(canvas, off, bytes) ==
  [canvas EXCEPT !.data =
     [i \in DOMAIN @ |->
        IF \E j \in 1..Len(bytes) : SlotOf(off + j - 1) = i
        THEN bytes[CHOOSE j \in 1..Len(bytes) : SlotOf(off + j - 1) = i]
        ELSE @[i]]]

\* the value written over a channel holding old
TamperValues(old) == {(old + 1) % 256}

\* declared ciphertext lengths written over the length field of a payload
\* whose true ciphertext length is cl and whose grid holds cap bytes
LengthValues(cl, cap) ==
  { ToUint32(n) : n \in {0, 1, TAG_LENGTH, cl - 1, cl + 1, cap - HEADER_LENGTH,
                         cap - HEADER_LENGTH + 1, 2147483647} }
    \cup { U32(1, 0),
           U32(1, 2147483647 - HEADER_LENGTH),       \* 2^32 - 1 - HEADER_LENGTH
           U32(1, 2147483647 - HEADER_LENGTH + 1),   \* 2^32 - HEADER_LENGTH
           U32(1, 2147483647) }                      \* 2^32 - 1

RateValues ==
  { ToUint32(n) : n \in {0, 1, 44100, MAX_SAMPLE_RATE - 1, MAX_SAMPLE_RATE,
                         MAX_SAMPLE_RATE + 1, 2147483647} }
    \cup { U32(1, 0), U32(1, 44100), U32(1, 2147483647) }

\* a w x h image of opaque pixels whose colour channels all hold v
FlatImage(w, h, v) ==
  [width |-> w, height |-> h,
   data |-> [i \in 1..(w * h * 4) |-> IF i % 4 = 0 THEN 255 ELSE v]]

CxEncrypt ==
  /\ cx.phase = "start"
  /\ \E field \in KeyFields, audio \in AudioBuffers(cx.platform),
        salt \in Salts, iv \in Ivs :
       LET e == encryptAudioToImage(field, audio, salt, iv)
       IN  cx' = [cx EXCEPT !.phase = "encrypted", !.encField = field,
                            !.audio = audio, !.enc = e, !.canvas = e.canvas]
  /\ UNCHANGED << st, pk, page >>

\* the saved image reaches the decrypting side with one colour channel changed
CxTamperByte ==
  /\ cx.phase = "encrypted" /\ cx.enc.status = "ok"
  /\ \E px \in 0..(cx.canvas.width * cx.canvas.height - 1), ch \in 0..2 :
       \E v \in TamperValues(cx.canvas.data[4 * px + ch + 1]) :
         cx' = [cx EXCEPT !.phase = "loaded",
                          !.tamper = [kind |-> "byte", px |-> px, ch |-> ch, v |-> v],
                          !.canvas = SetChannel(cx.canvas, px, ch, v)]
  /\ UNCHANGED << st, pk, page >>

\* ... with its ciphertext-length field rewritten
CxTamperLength ==
  /\ cx.phase = "encrypted" /\ cx.enc.status = "ok"
  /\ \E v \in LengthValues(Len(cx.enc.cipherBytes),
                           cx.canvas.width * cx.canvas.height * BYTES_PER_PIXEL) :
       cx' = [cx EXCEPT !.phase = "loaded",
                        !.tamper = [kind |-> "length", px |-> 0, ch |-> 0, v |-> v],
                        !.canvas = SetPayloadBytes(cx.canvas, SALT_LENGTH + IV_LENGTH,
                                                   SetUint32BE(v))]
  /\ UNCHANGED << st, pk, page >>

\* ... with its sample-rate field rewritten
CxTamperRate ==
  /\ cx.phase = "encrypted" /\ cx.enc.status = "ok"
  /\ \E v \in RateValues :
       cx' = [cx EXCEPT !.phase = "loaded",
                        !.tamper = [kind |-> "rate", px |-> 0, ch |-> 0, v |-> v],
                        !.canvas = SetPayloadBytes(cx.canvas,
                                     SALT_LENGTH + IV_LENGTH + CIPHERTEXT_LENGTH_BYTES,
                                     SetUint32BE(v))]
  /\ UNCHANGED << st, pk, page >>

\* an image that no encrypt call made is loaded
CxLoadForeign ==
  /\ cx.phase = "start"
  /\ \E w \in 1..4, h \in 1..4, v \in {0, 1, 255} :
       cx' = [cx EXCEPT !.phase = "loaded",
                        !.tamper = [kind |-> "foreign", px |-> 0, ch |-> 0, v |-> v],
                        !.canvas = FlatImage(w, h, v)]
  /\ UNCHANGED << st, pk, page >>

CxDecrypt ==
  /\ \/ cx.phase = "encrypted" /\ cx.enc.status = "ok"
     \/ cx.phase = "loaded"
  /\ \E field \in KeyFields :
       cx' = [cx EXCEPT !.phase = "decrypted", !.decField = field,
                        !.dec = decryptImageToAudio(field, cx.canvas, cx.platform)]
  /\ UNCHANGED << st, pk, page >>

(***************************************************************************)
(* The page                                                                *)
(***************************************************************************)
\* the browser the page runs in
UiPlatforms == { [lo |-> 8000, hi |-> 96000] }

\* what the user types into the key field
UiKeyFields == {<<>>, PassShort, PassA}

\* what decodeAudioData can resolve with
UiAudioBuffers(plat) ==
  { [samples |-> << <<0, 0, 128, 63>> >>, sampleRate |-> r] : r \in InputRates(plat) }

UiSalts == { [i \in 1..SALT_LENGTH |-> (i * 7) % 256] }
UiIvs == { [i \in 1..IV_LENGTH |-> (i * 11) % 256] }

\* the page after DOMContentLoaded (lines 204-221, 581-584) over the markup
\* of index.html, where the three buttons start disabled
UiStart(plat) ==
  [platform |-> plat,
   keyInput |-> <<>>,                 \* #secret-key-input value
   canvas |-> NoCanvas,               \* display.querySelector('canvas')
   lastDecryptedBuffer |-> NoBuffer,
   globalPlaybackContext |-> FALSE,
   playDisabled |-> TRUE, saveAudioDisabled |-> TRUE, saveImageDisabled |-> TRUE,
   isPlaying |-> FALSE,
   audioSrc |-> FALSE,                \* audioEl has a source loaded
   audioPlaying |-> FALSE,            \* audioEl is playing it
   recording |-> FALSE,               \* recordBtn has class 'recording'
   recorderState |-> "none",          \* mediaRecorder.state
   currentStream |-> FALSE,
   errorText |-> "", errorTimeout |-> FALSE]

UiIdle == [UiStart([lo |-> 0, hi |-> 0]) EXCEPT !.recorderState = "idle"]

\* lines 14-29
showError(u, message) == [u EXCEPT !.errorText = message, !.errorTimeout = TRUE]

\* lines 31-40
clearError(u) == [u EXCEPT !.errorText = "", !.errorTimeout = FALSE]

\* lines 576-579 with the assignment to display.innerHTML that uses it
getInitialDisplayMessage(u) == [clearError(u) EXCEPT !.canvas = NoCanvas]

\* display.innerHTML = '<p>...</p>': whatever canvas was shown is gone
ShowMessage(u) == [u EXCEPT !.canvas = NoCanvas]

\* lines 223-230
updatePlayButtonState(u) ==
  LET pass == getUserSecretKey(u.keyInput)
      strength == checkPasswordStrength(pass)
  IN  IF ~u.isPlaying
      THEN [u EXCEPT !.playDisabled =
              ~(u.canvas # NoCanvas /\ pass # <<>> /\ strength.score >= MIN_SCORE)]
      ELSE u

\* lines 232-243
resetAudioPlayer(u) == [u EXCEPT !.audioSrc = FALSE, !.audioPlaying = FALSE]

\* lines 269-272 and 334-337
ResetForNewAudio(u) ==
  [resetAudioPlayer(u) EXCEPT !.lastDecryptedBuffer = NoBuffer,
                              !.saveAudioDisabled = TRUE,
                              !.playDisabled = TRUE,
                              !.saveImageDisabled = TRUE]

NoTask ==
  [kind |-> "none", pc |-> "", src |-> "", pass |-> <<>>, audio |-> NoAudio,
   salt |-> <<>>, iv |-> <<>>, canvas |-> NoCanvas, buf |-> NoBuffer]
Task(kind, pc, src) == [NoTask EXCEPT !.kind = kind, !.pc = pc, !.src = src]

Pending == BagToSet(tasks)
With(b, t) == b (+) SetToBag({t})
Without(t) == tasks (-) SetToBag({t})
Room == BagCardinality(tasks) < MaxTasks

\* a recording, an audio upload or an image load is started while nothing
\* else is in flight and the recorder is not running; Decrypt & Play is
\* clicked whenever there is Room
LoadRoom == tasks = EmptyBag /\ ui.recorderState # "recording"

\* ... or, for the user who does not wait, while the decrypts of earlier
\* clicks on Decrypt & Play are all that is in flight
BusyRoom ==
  /\ Room /\ tasks # EmptyBag
  /\ \A t \in Pending : t.kind = "dec"
  /\ ui.recorderState # "recording"

\* resetAudioPlayer's pause() and load() reject the play() promises that are
\* still pending (lines 233-238)
AbortPlay(t) ==
  IF t.kind = "dec" /\ t.pc = "play" THEN [t EXCEPT !.pc = "aborted"] ELSE t
AbortPlays(b) == BagOfAll(AbortPlay, b)

\* the history encLog after a call that read pass did the things in did
BelowPolicy(pass) == pass = <<>> \/ checkPasswordStrength(pass).score < MIN_SCORE
Logged(pass, did) ==
  IF BelowPolicy(pass) THEN encLog \cup { [pass |-> pass, did |-> d] : d \in did }
  ELSE encLog

\* lines 245-252: the input event of the key field
KeyInput ==
  /\ \E text \in UiKeyFields \ {ui.keyInput} :
       ui' = updatePlayButtonState([ui EXCEPT !.keyInput = text])
  /\ UNCHANGED << harness, tasks, encLog >>

\* line 23: the timer that hides the error area
ErrorTimeout ==
  /\ ui.errorTimeout
  /\ ui' = [ui EXCEPT !.errorText = "", !.errorTimeout = FALSE]
  /\ UNCHANGED << harness, tasks, encLog >>

\* lines 254-310, up to the await of getUserMedia; a recording is started
\* when room holds
RecordClickWhen(room) ==
  LET u0 == clearError(ui)
      pass == getUserSecretKey(ui.keyInput)
      strength == checkPasswordStrength(pass)
  IN
  /\ IF pass = <<>>
     THEN ui' = showError(u0, "Please enter a secret key.") /\ UNCHANGED tasks
     ELSE IF strength.score < MIN_SCORE
     THEN ui' = showError(u0, "Password is too weak.") /\ UNCHANGED tasks
     ELSE IF ui.recording
     THEN \* stop: the recorder's stop event is queued
          /\ ui.recorderState = "recording" => Room
          /\ ui' = [u0 EXCEPT !.recorderState =
                                  IF @ = "recording" THEN "inactive" ELSE @,
                               !.currentStream = FALSE,
                               !.recording = FALSE]
          /\ tasks' = IF ui.recorderState = "recording"
                      THEN With(tasks, Task("stopEvent", "", "record"))
                      ELSE tasks
     ELSE \* start: everything before the microphone is granted
          /\ room
          /\ ui' = ShowMessage(ResetForNewAudio(u0))
          /\ tasks' = With(AbortPlays(tasks), Task("getUserMedia", "", "record"))
  /\ UNCHANGED << harness, encLog >>

RecordClick == RecordClickWhen(LoadRoom)
RecordClickBusy == RecordClickWhen(BusyRoom)

\* lines 276-300: the microphone is granted
GetUserMediaResolve ==
  /\ \E t \in Pending :
       /\ t.kind = "getUserMedia"
       /\ tasks' = Without(t)
       /\ ui' = [ShowMessage(ui) EXCEPT !.currentStream = TRUE,
                                        !.recorderState = "recording",
                                        !.recording = TRUE]
  /\ UNCHANGED << harness, encLog >>

\* lines 302-309: the microphone is refused
GetUserMediaReject ==
  /\ \E t \in Pending :
       /\ t.kind = "getUserMedia"
       /\ LET u1 == showError(ui, "Recording failed")
              u2 == [u1 EXCEPT !.recording = FALSE, !.currentStream = FALSE,
                               !.recorderState =
                                  IF @ = "recording" THEN "inactive" ELSE @]
          IN  /\ ui' = getInitialDisplayMessage(u2)
              /\ tasks' = IF ui.recorderState = "recording"
                          THEN With(Without(t), Task("stopEvent", "", "record"))
                          ELSE Without(t)
  /\ UNCHANGED << harness, encLog >>

\* lines 279-281: the recorder's stop event, up to the await of the blob
RecorderStop ==
  /\ \E t \in Pending :
       /\ t.kind = "stopEvent"
       /\ tasks' = With(Without(t), Task("enc", "blob", "record"))
  /\ UNCHANGED << harness, ui, encLog >>

\* lines 312-341: a file chosen in the audio input, up to the await of its
\* bytes; the file is taken up when room holds
AudioUploadChangeWhen(room) ==
  LET u0 == clearError(ui)
      pass == getUserSecretKey(ui.keyInput)
      strength == checkPasswordStrength(pass)
  IN
  /\ IF pass = <<>>
     THEN ui' = showError(u0, "Please enter a secret key before uploading audio.")
          /\ UNCHANGED tasks
     ELSE IF strength.score < MIN_SCORE
     THEN ui' = showError(u0, "Password is too weak.") /\ UNCHANGED tasks
     ELSE /\ room
          /\ ui' = ShowMessage(ResetForNewAudio(u0))
          /\ tasks' = With(AbortPlays(tasks), Task("enc", "blob", "upload"))
  /\ UNCHANGED << harness, encLog >>

AudioUploadChange == AudioUploadChangeWhen(LoadRoom)
AudioUploadChangeBusy == AudioUploadChangeWhen(BusyRoom)

\* lines 313-318: the file dialog closed without a file
AudioUploadNoFile ==
  /\ ui' = clearError(ui)
  /\ UNCHANGED << harness, tasks, encLog >>

\* lines 282-286 and 342-344: the bytes are there; decodeAudioData is awaited
EncBytesReady ==
  /\ \E t \in Pending :
       /\ t.kind = "enc" /\ t.pc = "blob"
       /\ tasks' = With(Without(t), [t EXCEPT !.pc = "decode"])
       /\ ui' = IF t.src = "record" THEN ShowMessage(clearError(ui))
                ELSE ShowMessage(ui)
  /\ UNCHANGED << harness, encLog >>

\* the catch blocks of lines 290-293 and 353-357
EncCatch(u, src) ==
  IF src = "record"
  THEN getInitialDisplayMessage(showError(u, "Error processing recorded audio"))
  ELSE LET u1 == getInitialDisplayMessage(showError(u, "Error processing uploaded audio"))
           u2 == updatePlayButtonState(u1)
       IN  [u2 EXCEPT !.saveImageDisabled = (u2.canvas = NoCanvas)]

\* decodeAudioData rejects: not an audio file
EncDecodeReject ==
  /\ \E t \in Pending :
       /\ t.kind = "enc" /\ t.pc = "decode"
       /\ tasks' = Without(t)
       /\ ui' = EncCatch(ui, t.src)
  /\ UNCHANGED << harness, encLog >>

\* decodeAudioData resolves (lines 286-287, 344-347) and encryptAudioToImage
\* starts (lines 73-84): it reads the key field, throws at the gate (the
\* handler's catch block runs) or draws the salt and awaits the key
EncStart ==
  /\ \E t \in Pending :
       /\ t.kind = "enc" /\ t.pc = "decode"
       /\ \E audio \in UiAudioBuffers(ui.platform), salt \in UiSalts :
            LET pass == getUserSecretKey(ui.keyInput)
                u0   == IF t.src = "upload" THEN ShowMessage(ui) ELSE ui
            IN  IF EncryptGate(pass) # "ok"
                THEN /\ tasks' = Without(t)
                     /\ ui' = EncCatch(u0, t.src)
                     /\ encLog' = Logged(pass, {"rejected"})
                ELSE /\ tasks' = With(Without(t),
                                       [t EXCEPT !.pc = "derive", !.pass = pass,
                                                 !.audio = audio, !.salt = salt])
                     /\ ui' = u0
                     /\ encLog' = Logged(pass, {"salt", "derive"})
  /\ UNCHANGED harness

\* lines 84-86: the key is there; the IV is drawn and the cipher awaited
EncKeyReady ==
  /\ \E t \in Pending :
       /\ t.kind = "enc" /\ t.pc = "derive"
       /\ \E iv \in UiIvs :
            tasks' = With(Without(t), [t EXCEPT !.pc = "cipher", !.iv = iv])
       /\ encLog' = Logged(t.pass, {"iv", "cipher"})
  /\ UNCHANGED << harness, ui >>

\* lines 87-121, then 288-289 or 349-350: the ciphertext is there; the
\* canvas is built and shown and the buttons are set
EncCipherReady ==
  /\ \E t \in Pending :
       /\ t.kind = "enc" /\ t.pc = "cipher"
       /\ LET p  == BuildPayload(t.pass, t.audio, t.salt, t.iv)
              u1 == [ui EXCEPT !.canvas = PackPixels(p.fullPayload)]
              u2 == updatePlayButtonState(u1)
          IN  ui' = [u2 EXCEPT !.saveImageDisabled = FALSE]
       /\ tasks' = Without(t)
       /\ encLog' = Logged(t.pass, {"canvas"})
  /\ UNCHANGED harness

(***************************************************************************)
(* The page: loading an image, Decrypt & Play                              *)
(***************************************************************************)
\* the audio inside the image files the user can pick
ImgAudio == [samples |-> << <<0, 0, 128, 63>> >>, sampleRate |-> 44100]

\* the image an earlier session saved under pass
ImgOfKey(pass) ==
  encryptAudioToImage(pass, ImgAudio, [i \in 1..SALT_LENGTH |-> (255 - i) % 256],
                      [i \in 1..IV_LENGTH |-> (200 + i) % 256]).canvas

\* the PNG files the user can pick: one saved under another passphrase, one
\* whose sample-rate field reads 0, one whose length field reads 1000, and
\* a 3 x 3 picture
UiImages ==
  { ImgOfKey(PassB),
    SetPayloadBytes(ImgOfKey(PassA), SALT_LENGTH + IV_LENGTH + CIPHERTEXT_LENGTH_BYTES,
                    SetUint32BE(ToUint32(0))),
    SetPayloadBytes(ImgOfKey(PassA), SALT_LENGTH + IV_LENGTH, SetUint32BE(ToUint32(1000))),
    FlatImage(3, 3, 0) }

\* lines 498-514 and 537: handleImageFileUpload for a PNG file, up to
\* the FileReader's load; the file is taken up when room holds
ImageUploadPngWhen(room) ==
  /\ room
  /\ LET u1 == resetAudioPlayer(clearError(ui))
         u2 == [u1 EXCEPT !.isPlaying = FALSE, !.lastDecryptedBuffer = NoBuffer,
                          !.saveAudioDisabled = TRUE]
     IN  ui' = ShowMessage(u2)
  /\ tasks' = With(AbortPlays(tasks), Task("img", "read", "image"))
  /\ UNCHANGED << harness, encLog >>

ImageUploadPng == ImageUploadPngWhen(LoadRoom)
ImageUploadPngBusy == ImageUploadPngWhen(BusyRoom)

\* lines 498-511 then 538-545: handleImageFileUpload for no file
\* (hasFile = FALSE) or a file that is not a PNG
ImageUploadOther ==
  /\ \E hasFile \in BOOLEAN :
       LET u1 == resetAudioPlayer(clearError(ui))
           u2 == [u1 EXCEPT !.isPlaying = FALSE, !.lastDecryptedBuffer = NoBuffer,
                            !.saveAudioDisabled = TRUE]
           u3 == IF hasFile
                 THEN showError(ShowMessage(u2), "Please select a valid PNG image file.")
                 ELSE ShowMessage(u2)
           u4 == [getInitialDisplayMessage(u3) EXCEPT !.saveImageDisabled = TRUE]
       IN  ui' = updatePlayButtonState(u4)
  /\ tasks' = AbortPlays(tasks)
  /\ UNCHANGED << harness, encLog >>

\* lines 515-516, 531: reader.onload hands the file's bytes to an Image
ImgReaderLoad ==
  /\ \E t \in Pending :
       /\ t.kind = "img" /\ t.pc = "read"
       /\ tasks' = With(Without(t), [t EXCEPT !.pc = "decode"])
  /\ UNCHANGED << harness, ui, encLog >>

\* lines 533-536: reader.onerror
ImgReaderError ==
  /\ \E t \in Pending :
       /\ t.kind = "img" /\ t.pc = "read"
       /\ tasks' = Without(t)
       /\ ui' = getInitialDisplayMessage(showError(ui, "Failed to read file."))
  /\ UNCHANGED << harness, encLog >>

\* lines 517-526: img.onload draws the picture on a new canvas and shows it
ImgLoad ==
  /\ \E t \in Pending :
       /\ t.kind = "img" /\ t.pc = "decode"
       /\ tasks' = Without(t)
       /\ \E img \in UiImages :
            LET u1 == updatePlayButtonState([ui EXCEPT !.canvas = img])
            IN  ui' = [u1 EXCEPT !.saveImageDisabled = FALSE]
  /\ UNCHANGED << harness, encLog >>

\* lines 527-530: img.onerror
ImgError ==
  /\ \E t \in Pending :
       /\ t.kind = "img" /\ t.pc = "decode"
       /\ tasks' = Without(t)
       /\ ui' = getInitialDisplayMessage(
                  showError(ui, "Failed to load image. It might be corrupted or not a valid PNG."))
  /\ UNCHANGED << harness, encLog >>

\* the decimal digits of an unsigned 32-bit value, as a template literal
\* prints them
U32Text(u) ==
  IF u.top = 0 THEN ToString(u.low)
  ELSE LET lo5 == 83648 + (u.low % 100000)
           hi  == 21474 + (u.low \div 100000) + (lo5 \div 100000)
           d(k) == ToString((lo5 \div k) % 10)
       IN  ToString(hi) \o d(10000) \o d(1000) \o d(100) \o d(10) \o d(1)

\* error.message of what decryptImageToAudio throws (lines 126, 142, 155,
\* 164, 171; the browser's text for its own exceptions)
DecryptErrorMessage(outcome, sampleRate) ==
  CASE outcome = "key_required" -> "Secret key is required"
    [] outcome = "header_short" ->
         "Corrupted data: Image data too short to contain header."
    [] outcome = "length_exceeds" ->
         "Corrupted data: Declared ciphertext length exceeds available data."
    [] outcome = "auth_failed" ->
         "Decryption failed - incorrect key or corrupted data."
    [] outcome = "bad_rate" ->
         "Invalid sample rate (" \o U32Text(sampleRate)
           \o "Hz) in image. Data might be corrupted."
    [] outcome = "range_error" ->
         "byte length of Float32Array should be a multiple of 4"
    [] OTHER -> "The sample rate provided is outside the supported range."

\* the mutant: the catch block reports nothing
PlayCatch_Silent(u, message) ==
  LET u2 == [resetAudioPlayer(u) EXCEPT !.isPlaying = FALSE,
                                        !.lastDecryptedBuffer = NoBuffer,
                                        !.saveAudioDisabled = TRUE]
  IN  updatePlayButtonState(u2)

\* lines 401-409: the catch block of playBtn.onclick
PlayCatch(u, message) ==
  LET u1 == showError(u, "Decryption or Playback failed: " \o message)
      u2 == [resetAudioPlayer(u1) EXCEPT !.isPlaying = FALSE,
                                         !.lastDecryptedBuffer = NoBuffer,
                                         !.saveAudioDisabled = TRUE]
  IN  updatePlayButtonState(u2)

\* lines 365-367: Decrypt & Play clicked with no canvas in the display
PlayNoCanvas ==
  /\ ~ui.playDisabled /\ ui.canvas = NoCanvas
  /\ ui' = showError(clearError(ui), "No image loaded to decrypt.")
  /\ UNCHANGED << harness, tasks, encLog >>

\* lines 369-376: clicked while playing: stop
PlayStop ==
  /\ ~ui.playDisabled /\ ui.canvas # NoCanvas /\ ui.isPlaying
  /\ ui' = updatePlayButtonState(
             [resetAudioPlayer(clearError(ui)) EXCEPT !.isPlaying = FALSE])
  /\ tasks' = AbortPlays(tasks)
  /\ UNCHANGED << harness, encLog >>

\* lines 378-383: the handler up to the call of decryptImageToAudio
PlayBegin(u) ==
  [clearError(u) EXCEPT !.lastDecryptedBuffer = NoBuffer,
                        !.saveAudioDisabled = TRUE, !.playDisabled = TRUE]

\* lines 378-385 with 125-156, then 401-409: decryptImageToAudio throws
\* before its first await and the catch block runs
PlayParseThrow ==
  /\ ~ui.playDisabled /\ ui.canvas # NoCanvas /\ ~ui.isPlaying
  /\ LET p == DecryptParse(ui.keyInput, ui.canvas)
     IN  /\ p.outcome # "parsed"
         /\ ui' = PlayCatch(PlayBegin(ui), DecryptErrorMessage(p.outcome, p.sampleRate))
  /\ tasks' = AbortPlays(tasks)
  /\ UNCHANGED << harness, encLog >>

\* lines 378-385 with 125-159: decryptImageToAudio gets to the await of
\* the key
PlayParseAwait ==
  /\ ~ui.playDisabled /\ ui.canvas # NoCanvas /\ ~ui.isPlaying
  /\ Room
  /\ LET p == DecryptParse(ui.keyInput, ui.canvas)
     IN  /\ p.outcome = "parsed"
         /\ ui' = PlayBegin(ui)
         /\ tasks' = With(tasks, [Task("dec", "derive", "play") EXCEPT
                                     !.pass = p.pass, !.canvas = ui.canvas])
  /\ UNCHANGED << harness, encLog >>

\* lines 159-160: the key is there; the cipher is awaited
DecKeyReady ==
  /\ \E t \in Pending :
       /\ t.kind = "dec" /\ t.pc = "derive"
       /\ tasks' = With(Without(t), [t EXCEPT !.pc = "cipher"])
  /\ UNCHANGED << harness, ui, encLog >>

\* the result of the call a task is in
DecOutcome(t, plat) == DecryptFinish(DecryptParse(t.pass, t.canvas), plat)

\* lines 160-172, then 401-409: the cipher rejects, or what follows it
\* throws, and the catch block runs
DecCipherThrow ==
  /\ \E t \in Pending :
       /\ t.kind = "dec" /\ t.pc = "cipher"
       /\ LET r == DecOutcome(t, ui.platform)
              u1 == [ui EXCEPT !.globalPlaybackContext = @ \/ r.ctxUsed]
          IN  /\ r.outcome # "ok"
              /\ ui' = PlayCatch(u1, DecryptErrorMessage(r.outcome, r.sampleRate))
       /\ tasks' = AbortPlays(Without(t))
  /\ UNCHANGED << harness, encLog >>

\* lines 160-177, then 385-393: the plaintext is there; the buffer is made
\* and kept, the player is given the WAV and play() is awaited
DecCipherReady ==
  /\ \E t \in Pending :
       /\ t.kind = "dec" /\ t.pc = "cipher"
       /\ LET r == DecOutcome(t, ui.platform)
              u1 == [ui EXCEPT !.globalPlaybackContext = TRUE,
                               !.lastDecryptedBuffer = r.buf]
          IN  /\ r.outcome = "ok"
              /\ ui' = [resetAudioPlayer(u1) EXCEPT !.audioSrc = TRUE]
              /\ tasks' = With(AbortPlays(Without(t)),
                               [t EXCEPT !.pc = "play", !.buf = r.buf])
  /\ UNCHANGED << harness, encLog >>

\* lines 395-399: play() resolves
PlayResolve ==
  /\ \E t \in Pending :
       /\ t.kind = "dec" /\ t.pc = "play"
       /\ tasks' = Without(t)
       /\ ui' = [ui EXCEPT !.audioPlaying = TRUE, !.isPlaying = TRUE,
                           !.playDisabled = FALSE,
                           !.saveAudioDisabled = (ui.lastDecryptedBuffer = NoBuffer)]
  /\ UNCHANGED << harness, encLog >>

\* lines 393, 401-409: play() rejects: refused by the browser, or ended by a
\* later pause() or load()
PlayReject ==
  /\ \E t \in Pending :
       /\ t.kind = "dec" /\ t.pc \in {"play", "aborted"}
       /\ ui' = PlayCatch(ui, IF t.pc = "aborted"
                              THEN "The play() request was interrupted."
                              ELSE "play() failed.")
       /\ tasks' = AbortPlays(Without(t))
  /\ UNCHANGED << harness, encLog >>

\* lines 413-419
AudioEnded ==
  /\ ui.audioPlaying
  /\ ui' = updatePlayButtonState([resetAudioPlayer(ui) EXCEPT !.isPlaying = FALSE])
  /\ tasks' = AbortPlays(tasks)
  /\ UNCHANGED << harness, encLog >>

\* lines 421-430: the player cannot load or decode its source
AudioError ==
  /\ ui.audioSrc
  /\ LET u1 == showError(ui, "Error playing audio: Unknown error")
     IN  ui' = updatePlayButtonState([resetAudioPlayer(u1) EXCEPT !.isPlaying = FALSE])
  /\ tasks' = AbortPlays(tasks)
  /\ UNCHANGED << harness, encLog >>

PageInit ==
  /\ st = StIdle /\ pk = PkIdle /\ cx = CxIdle
  /\ ui \in { UiStart(plat) : plat \in UiPlatforms }
  /\ tasks = EmptyBag
  /\ encLog = {}

Next ==
  \/ KeyInput
  \/ ErrorTimeout
  \/ RecordClick
  \/ GetUserMediaResolve
  \/ GetUserMediaReject
  \/ RecorderStop
  \/ AudioUploadChange
  \/ AudioUploadNoFile
  \/ EncBytesReady
  \/ EncDecodeReject
  \/ EncStart
  \/ EncKeyReady
  \/ EncCipherReady
  \/ ImageUploadPng
  \/ ImageUploadOther
  \/ ImgReaderLoad
  \/ ImgReaderError
  \/ ImgLoad
  \/ ImgError
  \/ PlayNoCanvas
  \/ PlayStop
  \/ PlayParseThrow
  \/ PlayParseAwait
  \/ DecKeyReady
  \/ DecCipherThrow
  \/ DecCipherReady
  \/ PlayResolve
  \/ PlayReject
  \/ AudioEnded
  \/ AudioError

Spec == PageInit /\ [][Next]_vars

\* the page with a user who also starts a recording, an audio upload or an
\* image load while decrypts are in flight
OverlapNext ==
  \/ Next
  \/ RecordClickBusy
  \/ AudioUploadChangeBusy
  \/ ImageUploadPngBusy

SpecOverlap == PageInit /\ [][OverlapNext]_vars

StrengthInit ==
  /\ st \in { [phase |-> "input", password |-> p, result |-> NoStrength] :
                p \in StrengthInputs }
  /\ pk = PkIdle
  /\ cx = CxIdle
  /\ ui = UiIdle /\ tasks = EmptyBag /\ encLog = {}

PackInit ==
  /\ st = StIdle
  /\ pk \in { [PkIdle EXCEPT !.phase = "input", !.payload = p] : p \in PackInputs }
  /\ cx = CxIdle
  /\ ui = UiIdle /\ tasks = EmptyBag /\ encLog = {}

CodecInit ==
  /\ st = StIdle
  /\ pk = PkIdle
  /\ cx \in { [CxIdle EXCEPT !.phase = "start", !.platform = plat] : plat \in Platforms }
  /\ ui = UiIdle /\ tasks = EmptyBag /\ encLog = {}

StrengthNext == StrengthApply

PackNext == PkPack \/ PkUnpack

CodecNext ==
  \/ CxEncrypt
  \/ CxTamperByte
  \/ CxTamperLength
  \/ CxTamperRate
  \/ CxLoadForeign
  \/ CxDecrypt

SpecStrength == StrengthInit /\ [][StrengthNext]_vars
SpecPack == PackInit /\ [][PackNext]_vars
SpecCodec == CodecInit /\ [][CodecNext]_vars

(***************************************************************************)
(* Properties                                                              *)
(***************************************************************************)
Decrypted == cx.phase = "decrypted"
FromEncrypt == cx.enc.status = "ok"
Untouched == FromEncrypt /\ cx.tamper.kind = "none"
ValidRate(r) == 1 <= r /\ r <= MAX_SAMPLE_RATE

\* C1 (round trip): audio with a sample rate in (0, 192000], encrypted under
\* a passphrase that passes the gate and decrypted from the untouched grid
\* with the same key-field text, comes back with the same samples, in the
\* same number, and the same sample rate.
C1_RoundTrip ==
  (Decrypted /\ Untouched /\ cx.decField = cx.encField
     /\ ValidRate(cx.audio.sampleRate))
  => /\ cx.dec.outcome = "ok"
     /\ Len(cx.dec.buf.samples) = Len(cx.audio.samples)
     /\ cx.dec.buf.samples = cx.audio.samples
     /\ cx.dec.buf.sampleRate = cx.audio.sampleRate

C1_Witness ==
  /\ Decrypted /\ Untouched /\ cx.decField = cx.encField
  /\ cx.audio.sampleRate = MAX_SAMPLE_RATE
  /\ cx.audio.samples[1] = <<0, 0, 128, 63>>
  /\ cx.dec.outcome = "ok"

\* C2 (header layout): in every payload encrypt builds, bytes 0-15 are the
\* salt drawn, bytes 16-27 the IV drawn, bytes 28-31 the ciphertext's byte
\* count and bytes 32-35 the sample rate, both big-endian, and the
\* ciphertext follows from byte 36; the payload is 36 bytes longer than the
\* ciphertext.
C2_HeaderLayout ==
  FromEncrypt =>
    LET p == cx.enc.fullPayload
        c == cx.enc.cipherBytes
        be(off) == p[off + 2] * 65536 + p[off + 3] * 256 + p[off + 4]
    IN  /\ Len(p) = 36 + Len(c)
        /\ Len(cx.enc.salt) = 16 /\ Len(cx.enc.iv) = 12
        /\ \A i \in 1..16 : p[i] = cx.enc.salt[i]
        /\ \A i \in 1..12 : p[16 + i] = cx.enc.iv[i]
        /\ p[29] = 0 /\ be(28) = Len(c)
        /\ p[33] = 0 /\ be(32) = cx.audio.sampleRate
        /\ \A i \in 1..Len(c) : p[36 + i] = c[i]

C2_Witness ==
  /\ FromEncrypt /\ Len(cx.enc.fullPayload) = 36 + 4 + TAG_LENGTH
  /\ cx.audio.sampleRate = 44100
  /\ cx.enc.fullPayload[35] = 172 /\ cx.enc.fullPayload[36] = 68

\* C3 (pixel capacity): the grid pack makes for a payload of N bytes holds at
\* least N bytes in its colour channels, and the first N bytes unpack reads
\* from it are the payload.
C3_PixelCapacity ==
  /\ pk.phase \in {"packed", "unpacked"} =>
       /\ pk.canvas.width * pk.canvas.height * 3 >= Len(pk.payload)
       /\ Len(pk.canvas.data) = pk.canvas.width * pk.canvas.height * 4
  /\ pk.phase = "unpacked" =>
       /\ Len(pk.extracted) >= Len(pk.payload)
       /\ \A k \in 1..Len(pk.payload) : pk.extracted[k] = pk.payload[k]

C3_Witness ==
  /\ pk.phase = "unpacked" /\ Len(pk.payload) = 56
  /\ pk.canvas.width = 5 /\ pk.canvas.height = 4
  /\ Len(pk.extracted) = 60

\* the payload offset a changed colour channel carries
TamperOffset == 3 * cx.tamper.px + cx.tamper.ch
SameKey == getUserSecretKey(cx.decField) = getUserSecretKey(cx.encField)

\* C4 (tamper detection): one changed byte anywhere in the ciphertext region
\* (offsets 36 .. 36 + CiphertextLength - 1) makes decrypt with the right
\* passphrase end with the authentication failure, without audio.
C4_TamperDetected ==
  (Decrypted /\ FromEncrypt /\ cx.tamper.kind = "byte" /\ SameKey
     /\ TamperOffset >= 36 /\ TamperOffset < 36 + Len(cx.enc.cipherBytes))
  => /\ cx.dec.outcome = "auth_failed"
     /\ cx.dec.buf = NoBuffer

C4_Witness ==
  /\ Decrypted /\ FromEncrypt /\ cx.tamper.kind = "byte" /\ SameKey
  /\ TamperOffset = 36 + Len(cx.enc.cipherBytes) - TAG_LENGTH - 1
  /\ cx.dec.outcome = "auth_failed" /\ cx.dec.cipherCalled

\* C5 as stated (wrong key): any key-field text other than the one used to
\* encrypt ends decrypt with the authentication failure.
C5_AnyOtherText ==
  (Decrypted /\ Untouched /\ cx.decField # cx.encField)
  => cx.dec.outcome = "auth_failed"

\* C5 as amended: a passphrase that is non-empty after getUserSecretKey's
\* trimming and differs from the trimmed encrypting passphrase ends decrypt
\* with the authentication failure, without audio.
C5_WrongKeyRejected ==
  (Decrypted /\ Untouched /\ ~SameKey /\ getUserSecretKey(cx.decField) # <<>>)
  => /\ cx.dec.outcome = "auth_failed"
     /\ cx.dec.buf = NoBuffer

C5_Witness ==
  /\ Decrypted /\ Untouched /\ cx.encField = PassA /\ cx.decField = PassB
  /\ cx.dec.outcome = "auth_failed" /\ cx.dec.cipherCalled

\* C6 (header truncated): an extracted buffer shorter than 36 bytes ends
\* decrypt with the header-too-short error and no header field read; one of
\* 36 bytes or more gets past that check and has its header read.
C6_HeaderTruncated ==
  (Decrypted /\ cx.dec.extractedLen >= 0)
  => /\ cx.dec.extractedLen < 36 =>
          /\ cx.dec.outcome = "header_short"
          /\ ~cx.dec.headerRead
          /\ cx.dec.ciphertextLength = NoU32 /\ cx.dec.sampleRate = NoU32
          /\ ~cx.dec.cipherCalled
     /\ cx.dec.extractedLen >= 36 =>
          /\ cx.dec.outcome # "header_short"
          /\ cx.dec.headerRead

C6_Witness ==
  /\ Decrypted /\ cx.tamper.kind = "foreign"
  /\ cx.dec.extractedLen = 27 /\ cx.dec.outcome = "header_short"

\* C7 (ciphertext truncated): with L the declared length, anywhere in
\* 0 .. 2^32 - 1, decrypt ends with the length error exactly when 36 + L is
\* more than the buffer holds (L > length - 36, no wrap-around); otherwise
\* it slices exactly L bytes, all inside the buffer.
C7_CiphertextTruncated ==
  (Decrypted /\ cx.dec.headerRead)
  => LET L    == cx.dec.ciphertextLength
         room == cx.dec.extractedLen - 36
     IN  /\ L.top \in {0, 1} /\ L.low >= 0
         /\ (L.top = 1 \/ L.low > room) => /\ cx.dec.outcome = "length_exceeds"
                                           /\ cx.dec.sliceLen = -1
                                           /\ ~cx.dec.cipherCalled
         /\ (L.top = 0 /\ L.low <= room) => /\ cx.dec.outcome # "length_exceeds"
                                            /\ cx.dec.sliceLen = L.low
                                            /\ cx.dec.sliceLen <= cx.dec.extractedLen

C7_Witness ==
  /\ Decrypted /\ cx.tamper.kind = "length" /\ cx.tamper.v = U32(1, 2147483647)
  /\ cx.dec.ciphertextLength = U32(1, 2147483647)
  /\ cx.dec.outcome = "length_exceeds"

\* C8 (sample-rate bound): a payload whose sample-rate field is 0 or above
\* 192000 never gives audio, and the rate it carries is never replaced; the
\* check itself rejects exactly those values, so 1 .. 192000 pass it.
C8_SampleRateBound ==
  (Decrypted /\ cx.dec.headerRead)
  => LET r   == cx.dec.sampleRate
         bad == r.top > 0 \/ r.low = 0 \/ r.low > 192000
     IN  /\ bad => cx.dec.outcome # "ok" /\ cx.dec.buf = NoBuffer
         /\ (cx.dec.rateChecked /\ bad) => cx.dec.outcome = "bad_rate"
         /\ (cx.dec.rateChecked /\ ~bad) => cx.dec.outcome # "bad_rate"
         /\ cx.dec.outcome = "ok" => cx.dec.buf.sampleRate = r.low

C8_Witness ==
  /\ Decrypted /\ cx.tamper.kind = "rate" /\ cx.tamper.v = ToUint32(MAX_SAMPLE_RATE + 1)
  /\ SameKey /\ cx.dec.rateChecked /\ cx.dec.outcome = "bad_rate"

\* C9 (strength scoring): fewer than 6 characters score 0, "Too Short";
\* otherwise the score is 1 plus one for each of: 12 characters or more, a
\* lower-case letter, an upper-case letter, a digit, any other character;
\* the level is Weak below 2, Medium below 5, Strong from 5.
C9_StrengthScoring ==
  st.phase = "scored" =>
    LET p == st.password
        n(class) == IF \E i \in 1..Len(p) : p[i] \in class THEN 1 ELSE 0
        expected == 1 + (IF Len(p) >= 12 THEN 1 ELSE 0)
                      + n({"a", "b"}) + n({"Z"}) + n({"7"}) + n({"#", " "})
    IN  IF Len(p) < 6
        THEN st.result.score = 0 /\ st.result.text = "Too Short"
        ELSE /\ st.result.score = expected
             /\ st.result.text = (IF expected < 2 THEN "Weak"
                                  ELSE IF expected < 5 THEN "Medium" ELSE "Strong")

C9_Witness ==
  /\ st.phase = "scored" /\ Len(st.password) = 12
  /\ st.result.score = 6 /\ st.result.text = "Strong"

\* C10 (encryption gate): however key-field edits interleave with record,
\* stop and upload events, an encryptAudioToImage call that reads an empty
\* passphrase or one scoring below 2 ends at the gate: it draws no salt or
\* IV, derives no key, calls no cipher and shows no canvas; and no call in
\* flight past the gate carries such a passphrase.
C10_EncryptionGate ==
  /\ \A e \in encLog : e.did = "rejected"
  /\ \A t \in BagToSet(tasks) :
       (t.kind = "enc" /\ t.pc \in {"derive", "cipher"})
         => (t.pass # <<>> /\ checkPasswordStrength(t.pass).score >= 2)

\* a call was made with the key field edited to a short passphrase while
\* the audio was being decoded, and was rejected
C10_Witness ==
  /\ [pass |-> PassShort, did |-> "rejected"] \in encLog
  /\ ui.keyInput = PassShort
  /\ ui.canvas = NoCanvas

Packed == pk.phase \in {"packed", "unpacked"}
PkPixels == pk.canvas.width * pk.canvas.height

\* C11 (alpha): in every grid pack makes, every pixel, padding pixels
\* included, has alpha 255.
C11_AlphaOpaque ==
  Packed => \A px \in 0..(PkPixels - 1) : pk.canvas.data[4 * px + 4] = 255

\* C12 (zero fill): in every grid pack makes, each R, G or B slot whose byte
\* index 3 * pixel + channel is at or beyond the payload length holds 0.
C12_SurplusZero ==
  Packed =>
    \A px \in 0..(PkPixels - 1), ch \in 0..2 :
      3 * px + ch >= Len(pk.payload) => pk.canvas.data[4 * px + ch + 1] = 0

\* a 56-byte payload in a 5 x 4 grid: the blue slot of pixel 18 and the
\* whole of pixel 19 lie beyond the payload
C12_Witness ==
  /\ pk.phase = "packed" /\ Len(pk.payload) = 56 /\ pk.payload[56] # 0
  /\ PkPixels = 20
  /\ pk.canvas.data[4 * 18 + 3] = 0
  /\ pk.canvas.data[4 * 19 + 1] = 0 /\ pk.canvas.data[4 * 19 + 2] = 0
  /\ pk.canvas.data[4 * 19 + 3] = 0

\* the sizes an encrypt call makes of n samples
C13_Sizes ==
  LET n == Len(cx.audio.samples)
      p == cx.enc.fullPayload
  IN  /\ Len(cx.enc.cipherBytes) = 4 * n + 16
      /\ p[29] = 0 /\ p[30] * 65536 + p[31] * 256 + p[32] = 4 * n + 16
      /\ Len(p) = 36 + 4 * n + 16
      /\ Len(p) = TotalDataLength(n)
      /\ cx.enc.canvas.width * cx.enc.canvas.height >= (Len(p) + 2) \div 3

\* C13 as stated (payload size): for audio of n samples the
\* ciphertext-length field is 4n + 16 and the payload 36 + 4n + 16 bytes;
\* for n = 44100 that is 176532 bytes, which needs 58844 pixels, and the
\* grid has at least that many.
C13_AsStated ==
  (FromEncrypt /\ cx.phase = "encrypted") =>
    /\ C13_Sizes
    /\ TotalDataLength(44100) = 176532
    /\ NumPixelsRequired(TotalDataLength(44100)) = 58844
    /\ GridWidth(TotalDataLength(44100)) * GridHeight(TotalDataLength(44100)) >= 58844

\* C13 as amended: the same with the sum done right: for n = 44100 the
\* payload is 36 + 176400 + 16 = 176452 bytes, which needs
\* ceil(176452 / 3) = 58818 pixels, and the grid (243 x 243) has at least
\* that many.
C13_PayloadSize ==
  (FromEncrypt /\ cx.phase = "encrypted") =>
    /\ C13_Sizes
    /\ TotalDataLength(44100) = 176452
    /\ 3 * 58818 >= 176452 /\ 3 * 58817 < 176452
    /\ NumPixelsRequired(TotalDataLength(44100)) = 58818
    /\ GridWidth(TotalDataLength(44100)) = 243
    /\ GridHeight(TotalDataLength(44100)) = 243
    /\ 243 * 243 >= 58818

\* one sample: 20 bytes of ciphertext, 56 of payload, 19 pixels needed, 20
\* in the grid
C13_Witness ==
  /\ FromEncrypt /\ cx.phase = "encrypted" /\ Len(cx.audio.samples) = 1
  /\ cx.enc.fullPayload[32] = 20 /\ Len(cx.enc.fullPayload) = 56
  /\ cx.enc.canvas.width = 5 /\ cx.enc.canvas.height = 4

\* C16 (sample rate written): every payload encrypt writes carries the
\* input audio's sample rate, that rate lies in (0, 192000], and so decrypt
\* of the untouched grid never ends at the sample-rate check.
C16_RateInRange ==
  FromEncrypt =>
    /\ GetUint32BE(cx.enc.fullPayload, 32) = ToUint32(cx.audio.sampleRate)
    /\ cx.audio.sampleRate > 0 /\ cx.audio.sampleRate <= 192000
    /\ (Decrypted /\ Untouched) => cx.dec.outcome # "bad_rate"

\* a step in which decryptImageToAudio throws and the Play handler's catch
\* block runs to its end
DecryptThrows == PlayParseThrow \/ DecCipherThrow

\* what the error area can show for a failed decrypt
DecryptFailureTexts ==
  { "Decryption or Playback failed: Secret key is required",
    "Decryption or Playback failed: Corrupted data: Image data too short to contain header.",
    "Decryption or Playback failed: Corrupted data: Declared ciphertext length exceeds available data.",
    "Decryption or Playback failed: Decryption failed - incorrect key or corrupted data.",
    "Decryption or Playback failed: Invalid sample rate (0Hz) in image. Data might be corrupted." }

\* C14 (explicit failure): a decrypt ends by returning its sample buffer,
\* which is then the retained one, or by throwing; when it throws, at the
\* end of the Play handler no decrypted buffer is retained, Save Audio is
\* disabled, isPlaying is false and the error area shows the failure.
C14_ExplicitFailure ==
  [][ /\ DecryptThrows =>
           /\ ui'.lastDecryptedBuffer = NoBuffer
           /\ ui'.saveAudioDisabled
           /\ ~ui'.isPlaying
           /\ ui'.errorText \in DecryptFailureTexts /\ ui'.errorTimeout
      /\ DecCipherReady =>
           /\ ui'.lastDecryptedBuffer # NoBuffer
           /\ ui'.lastDecryptedBuffer.samples # <<>>
           /\ \E t \in BagToSet(tasks') :
                t.kind = "dec" /\ t.pc = "play" /\ t.buf = ui'.lastDecryptedBuffer
    ]_vars

\* the image with sample rate 0 was decrypted with the right passphrase: the
\* cipher accepted it, the rate check threw, and the handler has finished
C14_Witness ==
  /\ ui.errorText =
       "Decryption or Playback failed: Invalid sample rate (0Hz) in image. Data might be corrupted."
  /\ ui.globalPlaybackContext
  /\ ui.lastDecryptedBuffer = NoBuffer /\ ui.saveAudioDisabled /\ ~ui.isPlaying
  /\ tasks = EmptyBag

\* C15 (no shared state): two operations in flight share no mutable
\* variable, so while another operation is in flight the buffer a decrypt
\* stored in lastDecryptedBuffer is still the one its Play handler finds
\* there when it resumes.
C15_NoSharedState ==
  BagCardinality(tasks) >= 2 =>
    \A t \in BagToSet(tasks) :
      (t.kind = "dec" /\ t.pc \in {"play", "aborted"}) => ui.lastDecryptedBuffer = t.buf

\* C17 (one generic failure): whatever makes a decrypt fail, a format error
\* or the cipher's rejection, the error area shows the same text.
C17_GenericFailure ==
  [][ DecryptThrows =>
        ui'.errorText =
          "Decryption or Playback failed: Decryption failed - incorrect key or corrupted data."
    ]_vars

\* C19 (validation first): a payload that fails a format check (fewer than
\* 36 bytes, a declared length past the end, a sample rate of 0 or above
\* 192000) ends decrypt with that format error before any key is derived
\* or the cipher called, whichever passphrase is entered.
C19_ValidationFirst ==
  (Decrypted /\ cx.dec.extractedLen >= 0
     /\ (FromEncrypt => ValidRate(cx.audio.sampleRate))) =>
    LET L == cx.dec.ciphertextLength
        r == cx.dec.sampleRate
        short   == cx.dec.extractedLen < 36
        lenBad  == cx.dec.headerRead
                     /\ (L.top > 0 \/ L.low > cx.dec.extractedLen - 36)
        rateBad == cx.dec.headerRead /\ (r.top > 0 \/ r.low = 0 \/ r.low > 192000)
    IN  (short \/ lenBad \/ rateBad) =>
          /\ cx.dec.outcome \in {"header_short", "length_exceeds", "bad_rate"}
          /\ cx.dec.key = NoKey
          /\ ~cx.dec.cipherCalled

\* C18 (pack placement): payload byte k, for every k below the payload's
\* length, is in image-data slot 4 * floor(k / 3) + (k mod 3), which is
\* channel k mod 3 of pixel floor(k / 3); the R, G, B slots up to the
\* payload's length, read in that order, are the payload, byte for byte, and
\* every alpha slot holds 0 or 255, never a payload byte.
C18_PackPlacement ==
  Packed =>
    /\ \A k \in 0..(Len(pk.payload) - 1) :
         /\ 4 * (k \div 3) + (k % 3) + 1 <= Len(pk.canvas.data)
         /\ pk.canvas.data[4 * (k \div 3) + (k % 3) + 1] = pk.payload[k + 1]
    /\ \A px \in 0..(PkPixels - 1) :
         /\ pk.canvas.data[4 * px + 4] \in {0, 255}
         /\ \A ch \in 0..2 :
              pk.canvas.data[4 * px + ch + 1] =
                (IF 3 * px + ch < Len(pk.payload) THEN pk.payload[3 * px + ch + 1] ELSE 0)

\* a 7-byte payload with distinct bytes: byte 3 is the red of pixel 1 and
\* byte 6 the red of pixel 2
C18_Witness ==
  /\ pk.phase = "packed" /\ pk.payload = <<37, 74, 111, 148, 185, 222, 3>>
  /\ pk.canvas.data[5] = 148 /\ pk.canvas.data[7] = 222 /\ pk.canvas.data[9] = 3
  /\ pk.canvas.data[4] = 255

\* C20 (grid dimensions): for a payload of N >= 1 bytes and req = ceil(N / 3),
\* the width is the least w with w * w >= req and the height the least h
\* with w * h >= req; so width * height >= req, the height is the width or
\* one less, and fewer than width pixels are surplus.
C20_GridDimensions ==
  (Packed /\ Len(pk.payload) >= 1) =>
    LET N   == Len(pk.payload)
        req == CHOOSE r \in 1..N : 3 * r >= N /\ 3 * (r - 1) < N
        w   == pk.canvas.width
        h   == pk.canvas.height
    IN  /\ w >= 1 /\ w * w >= req /\ (w - 1) * (w - 1) < req
        /\ h >= 1 /\ w * h >= req /\ w * (h - 1) < req
        /\ h \in {w, w - 1}
        /\ w * h - req < w
        /\ Len(pk.canvas.data) = 4 * w * h

\* 62 bytes need 21 pixels: a 5 x 5 grid with 4 surplus pixels
C20_Witness ==
  /\ pk.phase = "packed" /\ Len(pk.payload) = 62
  /\ pk.canvas.width = 5 /\ pk.canvas.height = 5

(***************************************************************************)
(* The unpacker and the bytes decrypt depends on                           *)
(***************************************************************************)
\* canvas with the alpha channel of every pixel set to another value, one
\* that changes from pixel to pixel
AlphaVariant(canvas) ==
  [canvas EXCEPT !.data = [i \in DOMAIN @ |-> IF i % 4 = 0 THEN (i * 13) % 256 ELSE @[i]]]

\* C21: for the width x height grid handed to decrypt, the extracted buffer
\* has exactly width * height * 3 bytes, byte k is channel k mod 3 of pixel
\* floor(k / 3) in row-major order, and a grid that differs from it only in
\* alpha values gives the same extracted buffer and the same decrypt outcome.
\* The size is checked on every grid; the order and the second grid on the
\* grids as encrypt made them, with a rewritten header field, and on the
\* foreign ones.
C21_UnpackIgnoresAlpha ==
  Decrypted =>
    LET canvas == cx.canvas
        n == canvas.width * canvas.height * BYTES_PER_PIXEL
        expected == [j \in 1..n |-> canvas.data[4 * ((j - 1) \div 3) + ((j - 1) % 3) + 1]]
        other == AlphaVariant(canvas)
    IN  /\ cx.dec.outcome # "key_required" => cx.dec.extractedLen = n
        /\ cx.tamper.kind # "byte" =>
             /\ UnpackPixels(canvas) = expected
             /\ other # canvas
             /\ UnpackPixels(other) = expected
             /\ decryptImageToAudio(cx.decField, other, cx.platform) = cx.dec

\* a decrypt that returned audio from a grid with transparent padding pixels
C21_Witness ==
  /\ Decrypted
  /\ cx.dec.outcome = "ok"
  /\ \E i \in DOMAIN cx.canvas.data : i % 4 = 0 /\ cx.canvas.data[i] = 0

\* the offset where the ciphertext ends that the header in bytes declares
DeclaredEnd(bytes) == CiphertextEndOffset(GetUint32BE(bytes, SALT_LENGTH + IV_LENGTH))

\* bytes holds a header and all of the ciphertext the header declares
HoldsDeclared(bytes) ==
  /\ ~HeaderTooShort(bytes)
  /\ ~U32Gt(DeclaredEnd(bytes), Len(bytes))

\* the payload offset of the colour byte in 1-based slot i of the image data
OffsetOf(i) == BYTES_PER_PIXEL * ((i - 1) \div 4) + ((i - 1) % 4)

\* a grid that agrees with canvas on payload offsets 0 .. n - 1: every later
\* colour byte is changed and a further row of white pixels follows
PadChanged(canvas, n) ==
  [width |-> canvas.width, height |-> canvas.height + 1,
   data |-> [i \in 1..(4 * canvas.width * (canvas.height + 1)) |->
               IF i > Len(canvas.data) THEN 255
               ELSE IF i % 4 # 0 /\ OffsetOf(i) >= n THEN (canvas.data[i] + 1) % 256
               ELSE canvas.data[i]]]

\* a grid that agrees with canvas on payload offsets 0 .. n - 1: a single
\* row of just the pixels that n bytes need
PadRemoved(canvas, n) ==
  LET px == CeilDiv(n, BYTES_PER_PIXEL)
  IN  [width |-> px, height |-> 1, data |-> [i \in 1..(4 * px) |-> canvas.data[i]]]

\* what a decrypt call gives back: how it ended, the fields it read and the
\* audio, without the size of the buffer it extracted
DecReturned(d) == [d EXCEPT !.extractedLen = 0]

\* C22: when the grid holds the header and the ciphertext it declares, the
\* result of decrypt is the same for every grid that agrees with it on the
\* first 36 + CiphertextLength bytes, whatever the later R/G/B bytes are and
\* however many padding pixels follow, under the same passphrase.  A grid
\* that reached decrypt with one colour byte changed after the ciphertext
\* is compared with the grid encrypt made; every other grid with the two
\* grids PadChanged and PadRemoved make of it.
C22_PadDiscarded ==
  Decrypted =>
    LET Same(a, other) ==
          DecReturned(decryptImageToAudio(cx.decField, other, cx.platform))
            = DecReturned(a)
    IN  IF cx.tamper.kind = "byte"
        THEN TamperOffset >= HEADER_LENGTH + Len(cx.enc.cipherBytes)
               => Same(cx.dec, cx.enc.canvas)
        ELSE LET bytes == UnpackPixels(cx.canvas)
             IN  HoldsDeclared(bytes) =>
                   /\ Same(cx.dec, PadChanged(cx.canvas, DeclaredEnd(bytes).low))
                   /\ Same(cx.dec, PadRemoved(cx.canvas, DeclaredEnd(bytes).low))

\* a decrypt that returned audio from a grid with colour bytes after the
\* ciphertext
C22_Witness ==
  /\ Decrypted /\ Untouched
  /\ HoldsDeclared(UnpackPixels(cx.canvas))
  /\ cx.dec.outcome = "ok"
  /\ DeclaredEnd(UnpackPixels(cx.canvas)).low < Len(UnpackPixels(cx.canvas))

(***************************************************************************)
(* The score of a passphrase of at least six characters                    *)
(***************************************************************************)
\* C23: a passphrase of at least 6 characters scores between 2 and 6 and is
\* never rated Weak, and the gate of encryptAudioToImage (score < 2) rejects
\* exactly the key-field texts that are shorter than 6 characters once
\* trimmed.
C23_NeverWeak ==
  st.phase = "scored" =>
    /\ Len(st.password) >= MIN_KEY_LENGTH =>
         /\ st.result.score \in MIN_SCORE..6
         /\ st.result.text # "Weak"
    /\ EncryptGate(getUserSecretKey(st.password)) # "ok"
         <=> Len(Trim(st.password)) < MIN_KEY_LENGTH

\* six characters of one class only: the lowest score a passphrase that
\* passes the length test can get
C23_Witness ==
  /\ st.phase = "scored"
  /\ Len(st.password) = MIN_KEY_LENGTH
  /\ st.result.score = MIN_SCORE
  /\ EncryptGate(getUserSecretKey(st.password)) = "ok"

(***************************************************************************)
(* What a successful decrypt returns                                       *)
(***************************************************************************)
\* C24: whenever decrypt returns audio from a grid that an encrypt call
\* made, changed afterwards or not, the samples and the sample rate are
\* those handed to that encrypt call; a changed header byte (salt, IV,
\* ciphertext length, sample rate) makes decrypt fail.
C24_ResultIntegrity ==
  (Decrypted /\ FromEncrypt /\ cx.dec.outcome = "ok")
  => /\ cx.dec.buf.samples = cx.audio.samples
     /\ cx.dec.buf.sampleRate = cx.audio.sampleRate

(***************************************************************************)
(* The page: decrypts in flight and the buttons                            *)
(***************************************************************************)
\* the calls of decryptImageToAudio that have not returned or thrown yet
DecryptsInFlight ==
  { t \in Pending : t.kind = "dec" /\ t.pc \in {"derive", "cipher"} }

\* C26: while a decrypt started by the Play button is in flight the button
\* stays disabled, whatever other events occur, so that at most one decrypt
\* is in flight at any time.
C26_PlayDisabledInFlight ==
  /\ DecryptsInFlight # {} => ui.playDisabled
  /\ \A t \in DecryptsInFlight : CopiesIn(t, tasks) = 1
  /\ Cardinality(DecryptsInFlight) <= 1

\* the key field holds a passphrase that passes the gate in the state u
KeyAcceptable(u) == EncryptGate(getUserSecretKey(u.keyInput)) = "ok"

\* C27: a step that completes an encryption (of a recording or of an
\* uploaded file) while the key field holds an acceptable passphrase leaves
\* the Decrypt/Play button enabled, also when the recording or the upload
\* was started while decrypted audio was playing.
C27_PlayEnabledAfterEncrypt ==
  [][ (EncCipherReady /\ KeyAcceptable(ui')) => ~ui'.playDisabled ]_vars

\* the steps in which a handler reports that processing recorded or
\* uploaded audio failed or that an image file could not be read or loaded
LoadFails == EncDecodeReject \/ ImgReaderError \/ ImgError

\* C28: when processing recorded or uploaded audio fails, or an image file
\* cannot be read or loaded, the error area shows the failure message once
\* the handler has finished, with the timer that will hide it running.
C28_FailureShown ==
  [][ LoadFails => (ui'.errorText # "" /\ ui'.errorTimeout) ]_vars

\* C29: a click on the record button while a recording is active stops the
\* MediaRecorder, releases the microphone stream and leaves the button in
\* its not-recording state, whatever the key field holds.
C29_StopAlwaysStops ==
  [][ (RecordClick /\ ui.recording /\ ui.recorderState = "recording")
        => /\ ui'.recorderState # "recording"
           /\ ~ui'.currentStream
           /\ ~ui'.recording
    ]_vars

\* C30: whenever the Save Image button is enabled, or the Play button is
\* enabled while nothing is playing, the display area holds a canvas.  It
\* is stated for the states in which every handler has finished: nothing is
\* in flight and the recorder is not running.
C30_ButtonsNeedCanvas ==
  (tasks = EmptyBag /\ ui.recorderState # "recording")
    => ((~ui.saveImageDisabled \/ (~ui.playDisabled /\ ~ui.isPlaying))
          => ui.canvas # NoCanvas)

\* C25: whenever lastDecryptedBuffer holds audio that Save Audio can export,
\* it is the decryption of the canvas in the display area, also when an
\* image load, a recording or an audio upload was started while the decrypt
\* was in flight.  It is stated for the states in which every handler has
\* finished and the display area holds a canvas.
C25_StoredAudioIsOfCanvas ==
  (tasks = EmptyBag /\ ui.canvas # NoCanvas
     /\ ui.lastDecryptedBuffer # NoBuffer /\ ~ui.saveAudioDisabled)
    => \E field \in UiKeyFields :
         LET r == decryptImageToAudio(field, ui.canvas, ui.platform)
         IN  r.outcome = "ok" /\ r.buf = ui.lastDecryptedBuffer

=============================================================================
